---- MODULE Spec2Model ----
(***************************************************************************)
(* Cognate discovery and classification: the perfect-match detector        *)
(* (find_perfect_cognates.py), the fuzzy-match detector                    *)
(* (find_near_cognates_fuzzy.py) and the merge and audit pipeline          *)
(* (recreate_master_cognate.py).                                           *)
(*                                                                         *)
(* A Python str is a sequence of code points: "casa" is                    *)
(* <<99, 97, 115, 97>>.  Language codes, words, the joined                 *)
(* Languages_Found column and the pair key are all such sequences, so      *)
(* that strip, sorted, join, split, len and == are computed as Python      *)
(* computes them.                                                          *)
(***************************************************************************)
EXTENDS Integers, Sequences, FiniteSets, TLC

\* ------------------------------------------------------------------------
\* Bounds of the model.

\* Ranks the raw data may hold, and the longest reference list.
MaxRank == 2

\* Rows of raw_data.csv that load_raw_data kept.
MaxEntries == 3

\* Rows of each CSV file handed to the merge when it is run on its own.
MaxRows == 2

\* Ranks and raw-data rows when the words are long.
LongMaxRank == 1

LongMaxEntries == 2

\* detect_delta on its own: the greatest length of a word.
MaxWordLen == 3

\* load_raw_data on its own: the greatest number of rows of raw_data.csv.
MaxRawRows == 2

\* The cluster analysis: the greatest number of rows of
\* universal_cognates.csv.
MaxClusterRows == 2

\* ------------------------------------------------------------------------
\* Program constants.

\* threshold: float = 0.7, as the fraction ThresholdNum / ThresholdDen.
ThresholdNum == 7
ThresholdDen == 10

\* len(w) >= 4
MinWordLen == 4

\* word_a_len <= 2 or word_b_len <= 2
AuditShortLen == 2

\* similarity < 0.7, in thousandths
AuditMinScore == 700

\* 'Similarity_Score': 1.0, in thousandths
PerfectScore == 1000

\* ------------------------------------------------------------------------
\* Strings.

Min(x, y) == IF x <= y THEN x ELSE y

Max(x, y) == IF x >= y THEN x ELSE y

\* str.isspace for the code points the model uses.
IsSpace(c) == c \in {9, 10, 11, 12, 13, 32}

RECURSIVE LStrip(_)
LStrip(s) ==
    IF s = <<>> THEN <<>>
    ELSE IF IsSpace(Head(s)) THEN LStrip(Tail(s)) ELSE s

RECURSIVE RStrip(_)
RStrip(s) ==
    IF s = <<>> THEN <<>>
    ELSE IF IsSpace(s[Len(s)]) THEN RStrip(SubSeq(s, 1, Len(s) - 1)) ELSE s

\* str.strip()
Strip(s) == RStrip(LStrip(s))

\* a < b for Python str: lexicographic by code point, a proper prefix first.
RECURSIVE StrLess(_, _)
StrLess(a, b) ==
    IF b = <<>> THEN FALSE
    ELSE IF a = <<>> THEN TRUE
    ELSE IF Head(a) # Head(b) THEN Head(a) < Head(b)
    ELSE StrLess(Tail(a), Tail(b))

\* Insertion of x into an ascending list, after the elements equal to it.
RECURSIVE InsertSorted(_, _)
InsertSorted(x, s) ==
    IF s = <<>> THEN <<x>>
    ELSE IF StrLess(x, Head(s)) THEN <<x>> \o s
    ELSE <<Head(s)>> \o InsertSorted(x, Tail(s))

\* sorted(list of str)
RECURSIVE SortedStrs(_)
SortedStrs(s) ==
    IF s = <<>> THEN <<>>
    ELSE InsertSorted(s[Len(s)], SortedStrs(SubSeq(s, 1, Len(s) - 1)))

\* A slip: the set as a list in descending order.
RECURSIVE SortedSet_desc(_)
SortedSet_desc(S) ==
    IF S = {} THEN <<>>
    ELSE LET m == CHOOSE x \in S : \A y \in S : x = y \/ StrLess(y, x)
         IN  <<m>> \o SortedSet_desc(S \ {m})

\* A set of str as a list, in ascending order: sorted(set).
RECURSIVE SortedSet(_)
SortedSet(S) ==
    IF S = {} THEN <<>>
    ELSE LET m == CHOOSE x \in S : \A y \in S : x = y \/ StrLess(x, y)
         IN  <<m>> \o SortedSet(S \ {m})

\* sep.join(list of str)
RECURSIVE Join(_, _)
Join(strs, sep) ==
    IF strs = <<>> THEN <<>>
    ELSE IF Len(strs) = 1 THEN strs[1]
    ELSE strs[1] \o sep \o Join(Tail(strs), sep)

\* s.split(c) for a one-character separator: always at least one field.
RECURSIVE SplitFrom(_, _, _)
SplitFrom(s, c, cur) ==
    IF s = <<>> THEN <<cur>>
    ELSE IF Head(s) = c THEN <<cur>> \o SplitFrom(Tail(s), c, <<>>)
    ELSE SplitFrom(Tail(s), c, Append(cur, Head(s)))

Split(s, c) == SplitFrom(s, c, <<>>)

\* ------------------------------------------------------------------------
\* difflib.SequenceMatcher(None, a, b).ratio(), without junk (isjunk is
\* None, and autojunk needs len(b) >= 200).

\* Length of the common run of a from i and b from j, inside a[..ahi) and
\* b[..bhi); positions are 1-based, the upper limits exclusive.
RECURSIVE MatchLen(_, _, _, _, _, _)
MatchLen(a, b, i, j, ahi, bhi) ==
    IF i < ahi /\ j < bhi /\ a[i] = b[j]
    THEN 1 + MatchLen(a, b, i + 1, j + 1, ahi, bhi)
    ELSE 0

\* find_longest_match: the longest block, the one starting earliest in a
\* and, of those, earliest in b.  <<i, j, size>>, size 0 when none.
FindLongestMatch(a, b, alo, ahi, blo, bhi) ==
    LET cand == {p \in (alo .. ahi - 1) \X (blo .. bhi - 1) : a[p[1]] = b[p[2]]}
    IN  IF cand = {} THEN <<alo, blo, 0>>
        ELSE LET size == [p \in cand |-> MatchLen(a, b, p[1], p[2], ahi, bhi)]
                 longest == CHOOSE k \in {size[p] : p \in cand} :
                              \A p \in cand : size[p] <= k
                 blocks == {p \in cand : size[p] = longest}
                 i == CHOOSE v \in {p[1] : p \in blocks} :
                        \A p \in blocks : v <= p[1]
                 j == CHOOSE v \in {p[2] : p \in {q \in blocks : q[1] = i}} :
                        \A p \in {q \in blocks : q[1] = i} : v <= p[2]
             IN  <<i, j, longest>>

\* get_matching_blocks, summed: the matched characters left and right of
\* the longest block, recursively.
RECURSIVE Matches(_, _, _, _, _, _)
Matches(a, b, alo, ahi, blo, bhi) ==
    LET m == FindLongestMatch(a, b, alo, ahi, blo, bhi)
    IN  IF m[3] = 0 THEN 0
        ELSE m[3]
             + Matches(a, b, alo, m[1], blo, m[2])
             + Matches(a, b, m[1] + m[3], ahi, m[2] + m[3], bhi)

\* ratio() = 2.0 * matches / (len(a) + len(b)), as the fraction
\* <<numerator, denominator>>; 1.0 when both are empty.
Ratio(a, b) ==
    IF Len(a) + Len(b) = 0 THEN <<1, 1>>
    ELSE <<2 * Matches(a, b, 1, Len(a) + 1, 1, Len(b) + 1), Len(a) + Len(b)>>

\* f"{sim:.3f}": the fraction rounded to thousandths, a tie to the even
\* thousandth (a tie has a denominator that is a power of two below 160
\* characters, so the float holds it exactly).
Format3(sim) ==
    LET n == sim[1] * 1000
        q == n \div sim[2]
        r == n % sim[2]
    IN  IF 2 * r > sim[2] THEN q + 1
        ELSE IF 2 * r < sim[2] THEN q
        ELSE IF q % 2 = 0 THEN q ELSE q + 1

\* ------------------------------------------------------------------------
\* Language codes and words.

EN == <<101, 110>>

ES == <<101, 115>>

FR == <<102, 114>>

IT == <<105, 116>>

PT == <<112, 116>>

RO == <<114, 111>>

CA == <<99, 97>>

GL == <<103, 108>>

\* "de": a code raw_data.csv may hold that LANGUAGES does not list.
DE == <<100, 101>>

\* The codes of LANGUAGES, in its order.
LANGUAGES == <<EN, ES, FR, IT, PT, RO, CA, GL>>

\* "no", "casa", "caso", "vida"
W_no == <<110, 111>>

W_casa == <<99, 97, 115, 97>>

W_caso == <<99, 97, 115, 111>>

W_vida == <<118, 105, 100, 97>>

\* "nan", "null"
W_nan == <<110, 97, 110>>

W_null == <<110, 117, 108, 108>>

\* "0000", "00000"
W_0000 == <<48, 48, 48, 48>>

W_00000 == <<48, 48, 48, 48, 48>>

\* Two words of 108 and 109 characters, 76 of them common.
W_long_a == [i \in 1 .. 108 |-> IF i <= 76 THEN 97 ELSE 98]

W_long_b == [i \in 1 .. 109 |-> IF i <= 76 THEN 97 ELSE 99]

\* The words of the reference list.
RefWords == {W_no, W_casa}

\* The language codes and the words of raw_data.csv: for the two
\* detectors together, for the perfect-match detector alone (with a code
\* that LANGUAGES does not list), and with long words.
RawLangs == {CA, ES, FR}

RawWords == {W_no, W_casa, W_caso}

PerfectLangs == {ES, FR, IT, DE}

PerfectWords == {W_no, W_casa}

LongLangs == {ES, FR}

LongWords == {W_casa, W_long_a, W_long_b}

\* A raw_data.csv that has rows under the reference code "en" as well.
NearLangs == {CA, EN, ES}

NearWords == {W_casa, W_caso}

\* The detectors and the merge in a row: a reference list that may hold
\* "null" and "nan", and two languages.
PipeRefWords == {W_null, W_nan, W_casa}

PipeLangs == {ES, FR}

PipeWords == {W_null, W_nan, W_casa, W_caso}

\* The detectors and the merge in a row on lists that hold tokens of
\* digits beside words.
DigitRefWords == {W_0000, W_casa}

DigitLangs == {ES}

DigitWords == {W_0000, W_00000, W_casa, W_caso}

\* ------------------------------------------------------------------------
\* find_perfect_cognates.py

\* by_lang_rank.get((code, rank), "")
Get(blr, code, rank) ==
    IF <<code, rank>> \in DOMAIN blr THEN blr[<<code, rank>>] ELSE <<>>

\* A slip: word_langs[word] = [code] in place of the append.
DictAppend_overwrite(d, word, code) ==
    IF \E i \in 1 .. Len(d) : d[i].word = word
    THEN [i \in 1 .. Len(d) |->
            IF d[i].word = word
            THEN [d[i] EXCEPT !.codes = <<code>>]
            ELSE d[i]]
    ELSE Append(d, [word |-> word, codes |-> <<code>>])

\* word_langs[word].append(code) on a defaultdict(list): a dict keeps its
\* keys in insertion order, so it is the list of its items.
DictAppend(d, word, code) ==
    IF \E i \in 1 .. Len(d) : d[i].word = word
    THEN [i \in 1 .. Len(d) |->
            IF d[i].word = word
            THEN [d[i] EXCEPT !.codes = Append(@, code)]
            ELSE d[i]]
    ELSE Append(d, [word |-> word, codes |-> <<code>>])

\* for code, _name in LANGUAGES: ... from index i on.
RECURSIVE CollectLanguages(_, _, _, _)
CollectLanguages(d, blr, rank, i) ==
    IF i > Len(LANGUAGES) THEN d
    ELSE LET code == LANGUAGES[i]
             word == Strip(Get(blr, code, rank))
         IN  IF code = EN \/ word = <<>>
             THEN CollectLanguages(d, blr, rank, i + 1)
             ELSE CollectLanguages(DictAppend(d, word, code), blr, rank, i + 1)

\* word_langs at one rank: the reference word under "en", then the others.
WordLangs(english_meaning, blr, rank) ==
    CollectLanguages(<<[word |-> english_meaning, codes |-> <<EN>>]>>,
                     blr, rank, 1)

\* A slip: the test len(codes) < 2 left out.
RECURSIVE RankRows_any(_, _, _)
RankRows_any(d, rank, english_meaning) ==
    IF d = <<>> THEN <<>>
    ELSE <<[Rank |-> rank,
            English_Meaning |-> english_meaning,
            Word |-> Head(d).word,
            Languages_Found |-> Join(SortedStrs(Head(d).codes), <<44>>),
            Count |-> Len(Head(d).codes)]>>
         \o RankRows_any(Tail(d), rank, english_meaning)

\* A slip: the fuzzy detector's length guard applied here too.
RECURSIVE RankRows_min_len(_, _, _)
RankRows_min_len(d, rank, english_meaning) ==
    IF d = <<>> THEN <<>>
    ELSE LET rest == RankRows_min_len(Tail(d), rank, english_meaning)
             codes == Head(d).codes
         IN  IF Len(codes) < 2 \/ Len(Head(d).word) < MinWordLen THEN rest
             ELSE <<[Rank |-> rank,
                     English_Meaning |-> english_meaning,
                     Word |-> Head(d).word,
                     Languages_Found |-> Join(SortedStrs(codes), <<44>>),
                     Count |-> Len(codes)]>> \o rest

\* for word, codes in word_langs.items(): the rows of one rank.
RECURSIVE RankRows(_, _, _)
RankRows(d, rank, english_meaning) ==
    IF d = <<>> THEN <<>>
    ELSE LET rest == RankRows(Tail(d), rank, english_meaning)
             codes == Head(d).codes
         IN  IF Len(codes) < 2 THEN rest
             ELSE <<[Rank |-> rank,
                     English_Meaning |-> english_meaning,
                     Word |-> Head(d).word,
                     Languages_Found |-> Join(SortedStrs(codes), <<44>>),
                     Count |-> Len(codes)]>> \o rest

\* A slip: each rank's rows put in front of the rows collected so far.
RECURSIVE PerfectFrom_prepend(_, _, _)
PerfectFrom_prepend(english_by_rank, blr, rank) ==
    IF rank > Len(english_by_rank) THEN <<>>
    ELSE LET english_meaning == Strip(english_by_rank[rank])
             rest == PerfectFrom_prepend(english_by_rank, blr, rank + 1)
         IN  IF english_meaning = <<>> THEN rest
             ELSE rest \o RankRows(WordLangs(english_meaning, blr, rank),
                                   rank, english_meaning)

\* for rank in range(1, max_rank + 1): ... from rank on.
RECURSIVE PerfectFrom(_, _, _)
PerfectFrom(english_by_rank, blr, rank) ==
    IF rank > Len(english_by_rank) THEN <<>>
    ELSE LET english_meaning == Strip(english_by_rank[rank])
             rest == PerfectFrom(english_by_rank, blr, rank + 1)
         IN  IF english_meaning = <<>> THEN rest
             ELSE RankRows(WordLangs(english_meaning, blr, rank),
                           rank, english_meaning) \o rest

find_universal_perfect_cognates(english_by_rank, blr) ==
    PerfectFrom(english_by_rank, blr, 1)

\* ------------------------------------------------------------------------
\* find_near_cognates_fuzzy.py

\* int(text): blanks around, a sign, then digits, single underscores
\* between them allowed; anything else raises ValueError.
IsDigit(c) == c \in 48 .. 57

ValidDigits(t) ==
    /\ t # <<>>
    /\ IsDigit(t[1])
    /\ IsDigit(t[Len(t)])
    /\ \A i \in 1 .. Len(t) : IsDigit(t[i]) \/ t[i] = 95
    /\ \A i \in 1 .. Len(t) - 1 : ~(t[i] = 95 /\ t[i + 1] = 95)

RECURSIVE DigitsValue(_, _)
DigitsValue(t, acc) ==
    IF t = <<>> THEN acc
    ELSE IF Head(t) = 95 THEN DigitsValue(Tail(t), acc)
    ELSE DigitsValue(Tail(t), 10 * acc + (Head(t) - 48))

ParseInt(text) ==
    LET t == Strip(text)
        signed == t # <<>> /\ Head(t) \in {43, 45}
        digits == IF signed THEN Tail(t) ELSE t
    IN  IF ~ValidDigits(digits) THEN [ok |-> FALSE, value |-> 0]
        ELSE [ok |-> TRUE,
              value |-> IF signed /\ Head(t) = 45
                        THEN 0 - DigitsValue(digits, 0)
                        ELSE DigitsValue(digits, 0)]

\* by_lang_rank[(lang, rank)] = word
DictPut(d, key, value) ==
    [k \in DOMAIN d \cup {key} |-> IF k = key THEN value ELSE d[k]]

\* load_raw_data: the loop over the rows of raw_data.csv, from the dict
\* built so far.
RECURSIVE LoadRows(_, _)
LoadRows(blr, rows) ==
    IF rows = <<>> THEN blr
    ELSE LET row == Head(rows)
             lang == Strip(row.language)
             rank == ParseInt(row.rank)
             word == Strip(row.word)
         IN  IF lang = <<>> THEN LoadRows(blr, Tail(rows))
             ELSE IF ~rank.ok THEN LoadRows(blr, Tail(rows))
             ELSE IF word = <<>> THEN LoadRows(blr, Tail(rows))
             ELSE LoadRows(DictPut(blr, <<lang, rank.value>>, word), Tail(rows))

load_raw_data(rows) == LoadRows(<<>>, rows)

\* load_raw_data: the language codes observed and the maximum rank.
LoadedLanguages(blr) == {k[1] : k \in DOMAIN blr}

\* A slip: the least of the languages' maximum ranks.
LoadedMaxRank_min_of_max(blr) ==
    IF DOMAIN blr = {} THEN 0
    ELSE LET top(l) == CHOOSE r \in {k[2] : k \in {d \in DOMAIN blr : d[1] = l}} :
                          \A k \in DOMAIN blr : k[1] = l => k[2] <= r
         IN  CHOOSE r \in {top(l) : l \in {k[1] : k \in DOMAIN blr}} :
                \A l \in {k[1] : k \in DOMAIN blr} : r <= top(l)

LoadedMaxRank(blr) ==
    CHOOSE r \in {k[2] : k \in DOMAIN blr} \cup {0} :
        /\ r >= 0
        /\ \A k \in DOMAIN blr : k[2] <= r

RECURSIVE PrefixFrom(_, _, _)
PrefixFrom(a, b, i) ==
    IF i < Min(Len(a), Len(b)) /\ a[i + 1] = b[i + 1]
    THEN PrefixFrom(a, b, i + 1)
    ELSE i

longest_common_prefix(a, b) == PrefixFrom(a, b, 0)

RECURSIVE SuffixFrom(_, _, _)
SuffixFrom(a, b, i) ==
    IF i < Min(Len(a), Len(b)) /\ a[Len(a) - i] = b[Len(b) - i]
    THEN SuffixFrom(a, b, i + 1)
    ELSE i

longest_common_suffix(a, b) == SuffixFrom(a, b, 0)

\* A slip: the suffix kept whole when it overlaps the prefix.
DeltaSuffixLen_no_clamp(a, b) == longest_common_suffix(a, b)

\* A slip: the suffix held to the shorter word, not to what the prefix
\* leaves of it.
DeltaSuffixLen_whole_word(a, b) ==
    Min(longest_common_suffix(a, b), Min(Len(a), Len(b)))

\* The suffix length detect_delta uses: shortened when it would overlap
\* the prefix.
DeltaSuffixLen(a, b) ==
    LET prefix_len == longest_common_prefix(a, b)
        suffix_len == longest_common_suffix(a, b)
        max_common == Min(Len(a), Len(b))
    IN  IF prefix_len + suffix_len > max_common
        THEN Max(0, max_common - prefix_len)
        ELSE suffix_len

\* detect_delta: the returned text as [form, a, b]; form "" is the empty
\* string.
detect_delta(a, b) ==
    IF a = <<>> \/ b = <<>> THEN [form |-> "", a |-> <<>>, b |-> <<>>]
    ELSE LET prefix_len == longest_common_prefix(a, b)
             suffix_len == DeltaSuffixLen(a, b)
             a_mid == SubSeq(a, prefix_len + 1, Len(a) - suffix_len)
             b_mid == SubSeq(b, prefix_len + 1, Len(b) - suffix_len)
         IN  IF a_mid # <<>> \/ b_mid # <<>>
             THEN [form |-> "delta", a |-> a_mid, b |-> b_mid]
             ELSE IF a # b
             THEN [form |-> "delta_whole", a |-> a, b |-> b]
             ELSE [form |-> "", a |-> <<>>, b |-> <<>>]

\* for lang_code in sorted(languages): entries.append(...), over the list
\* of codes.
RECURSIVE LanguageEntries(_, _, _)
LanguageEntries(codes, blr, rank) ==
    IF codes = <<>> THEN <<>>
    ELSE LET word == Strip(Get(blr, Head(codes), rank))
             rest == LanguageEntries(Tail(codes), blr, rank)
         IN  IF word = <<>> THEN rest
             ELSE <<[lang |-> Head(codes), word |-> word]>> \o rest

\* entries = [(lc, w) for (lc, w) in entries if len(w) >= 4]
LongEnough(e) == Len(e.word) >= MinWordLen

RankEntries(english_meaning, blr, languages, rank) ==
    SelectSeq(<<[lang |-> EN, word |-> english_meaning]>>
                \o LanguageEntries(SortedSet(languages), blr, rank),
              LongEnough)

\* sim <= threshold or sim >= 1.0, on the fraction.
Rejected(sim) ==
    \/ sim[1] * ThresholdDen <= ThresholdNum * sim[2]
    \/ sim[1] >= sim[2]

\* The body of the loop over itertools.combinations(entries, 2) for one
\* pair: the rows it appends.
PairRows(rank, english_meaning, ea, eb) ==
    IF ea.word = eb.word THEN <<>>
    ELSE IF Len(ea.word) < MinWordLen \/ Len(eb.word) < MinWordLen THEN <<>>
    ELSE LET sim == Ratio(ea.word, eb.word)
         IN  IF Rejected(sim) THEN <<>>
             ELSE <<[Rank |-> rank,
                     English_Meaning |-> english_meaning,
                     Language_A |-> ea.lang,
                     Word_A |-> ea.word,
                     Language_B |-> eb.lang,
                     Word_B |-> eb.word,
                     Similarity_Score |-> Format3(sim),
                     Pattern_Detected |-> detect_delta(ea.word, eb.word)]>>

\* itertools.combinations(entries, 2) from the pair (i, j) on: (1, 2),
\* (1, 3), ..., (2, 3), ...
RECURSIVE CombinationRows(_, _, _, _, _)
CombinationRows(rank, english_meaning, entries, i, j) ==
    IF i >= Len(entries) THEN <<>>
    ELSE IF j > Len(entries)
    THEN CombinationRows(rank, english_meaning, entries, i + 1, i + 2)
    ELSE PairRows(rank, english_meaning, entries[i], entries[j])
         \o CombinationRows(rank, english_meaning, entries, i, j + 1)

\* for rank in range(1, max_rank + 1): ... from rank on.
RECURSIVE NearFrom(_, _, _, _, _)
NearFrom(english_by_rank, blr, languages, max_rank, rank) ==
    IF rank > max_rank THEN <<>>
    ELSE LET english_meaning == Strip(english_by_rank[rank])
             rest == NearFrom(english_by_rank, blr, languages, max_rank, rank + 1)
             entries == RankEntries(english_meaning, blr, languages, rank)
         IN  IF Len(english_meaning) < 1 THEN rest
             ELSE IF Len(entries) < 2 THEN rest
             ELSE CombinationRows(rank, english_meaning, entries, 1, 2) \o rest

find_near_cognates(english_by_rank, blr, languages, max_rank_data) ==
    NearFrom(english_by_rank, blr, languages,
             Min(Len(english_by_rank), max_rank_data), 1)

\* ------------------------------------------------------------------------
\* recreate_master_cognate.py

\* str(n) for n >= 0, as csv writes an int.
RECURSIVE Decimal(_)
Decimal(n) ==
    IF n < 10 THEN <<48 + n>>
    ELSE Decimal(n \div 10) \o <<48 + (n % 10)>>

\* pd.read_csv: a cell of a text column that holds one of the default
\* missing-value markers ("", "#N/A", "#N/A N/A", "#NA", "-1.#IND",
\* "-1.#QNAN", "-NaN", "-nan", "1.#IND", "1.#QNAN", "<NA>", "N/A", "NA",
\* "NULL", "NaN", "None", "n/a", "nan", "null") is read as NaN, which is
\* no text; str() and an f-string show it as "nan".
NAValues ==
    {<<>>,
     <<35, 78, 47, 65>>,
     <<35, 78, 47, 65, 32, 78, 47, 65>>,
     <<35, 78, 65>>,
     <<45, 49, 46, 35, 73, 78, 68>>,
     <<45, 49, 46, 35, 81, 78, 65, 78>>,
     <<45, 78, 97, 78>>,
     <<45, 110, 97, 110>>,
     <<49, 46, 35, 73, 78, 68>>,
     <<49, 46, 35, 81, 78, 65, 78>>,
     <<60, 78, 65, 62>>,
     <<78, 47, 65>>,
     <<78, 65>>,
     <<78, 85, 76, 76>>,
     <<78, 97, 78>>,
     <<78, 111, 110, 101>>,
     <<110, 47, 97>>,
     <<110, 97, 110>>,
     <<110, 117, 108, 108>>}

NaN == <<-1>>

\* pd.read_csv infers the type of a column from all its cells: when every
\* cell that is no missing-value marker is a sign and decimal digits, the
\* column is int64, or float64 if a marker stands among them, and a cell
\* holds the number, not the text; a column of markers alone is float64.
\* Any other column keeps its texts. (Texts of decimal fractions,
\* exponents, "inf" and "True"/"False" are read as numbers and booleans
\* too; the words of this model hold none.) A cell of an int64 column is
\* <<-2, n>>, one of a float64 column <<-3, n>>.
IntegerText(t) ==
    LET digits == IF t # <<>> /\ Head(t) \in {43, 45} THEN Tail(t) ELSE t
    IN  /\ digits # <<>>
        /\ \A i \in 1 .. Len(digits) : IsDigit(digits[i])

IntegerValue(t) ==
    IF Head(t) = 45 THEN 0 - DigitsValue(Tail(t), 0)
    ELSE IF Head(t) = 43 THEN DigitsValue(Tail(t), 0)
    ELSE DigitsValue(t, 0)

IntCell(n) == <<-2, n>>

FloatCell(n) == <<-3, n>>

\* str(n) of an int
IntStr(n) == IF n < 0 THEN <<45>> \o Decimal(0 - n) ELSE Decimal(n)

\* str(cell), and a cell inside an f-string: 'nan' for NaN, the shortest
\* decimal for an int, the same and ".0" for a float of integral value.
Str(cell) ==
    IF cell = NaN THEN W_nan
    ELSE IF cell # <<>> /\ cell[1] = -2 THEN IntStr(cell[2])
    ELSE IF cell # <<>> /\ cell[1] = -3 THEN IntStr(cell[2]) \o <<46, 48>>
    ELSE cell

TextColumns ==
    {"English_Meaning", "Word", "Languages_Found",
     "Language_A", "Word_A", "Language_B", "Word_B"}

\* The dtype read_csv gives the column f of a file.
ColumnType(rows, f) ==
    LET cells == {rows[i][f] : i \in 1 .. Len(rows)}
    IN  IF cells \subseteq NAValues THEN "float64"
        ELSE IF \A t \in cells \ NAValues : IntegerText(t)
        THEN IF cells \cap NAValues = {} THEN "int64" ELSE "float64"
        ELSE "object"

read_csv(rows) ==
    [i \in 1 .. Len(rows) |->
        [f \in DOMAIN rows[i] |->
            IF f \notin TextColumns THEN rows[i][f]
            ELSE IF rows[i][f] \in NAValues THEN NaN
            ELSE IF ColumnType(rows, f) = "int64"
            THEN IntCell(IntegerValue(rows[i][f]))
            ELSE IF ColumnType(rows, f) = "float64"
            THEN FloatCell(IntegerValue(rows[i][f]))
            ELSE rows[i][f]]]

\* 'Perfect' and 'Near'
MT_Perfect == <<80, 101, 114, 102, 101, 99, 116>>

MT_Near == <<78, 101, 97, 114>>

\* A slip: for j in range(len(languages)) with i != j, each pair twice.
RECURSIVE PairsOfRow_both_ways(_, _, _, _)
PairsOfRow_both_ways(row, languages, i, j) ==
    IF i > Len(languages) THEN <<>>
    ELSE IF j > Len(languages) THEN PairsOfRow_both_ways(row, languages, i + 1, 1)
    ELSE IF i = j THEN PairsOfRow_both_ways(row, languages, i, j + 1)
    ELSE <<[Rank |-> row.Rank,
            English_Reference |-> row.English_Meaning,
            Word_A |-> row.Word,
            Word_B |-> row.Word,
            Lang_A |-> Strip(languages[i]),
            Lang_B |-> Strip(languages[j]),
            Match_Type |-> MT_Perfect,
            Similarity_Score |-> PerfectScore]>>
         \o PairsOfRow_both_ways(row, languages, i, j + 1)

\* for j in range(i + 1, len(languages)): perfect_processed.append(...)
\* from the pair (i, j) on, positions 1-based.
RECURSIVE PairsOfRow(_, _, _, _)
PairsOfRow(row, languages, i, j) ==
    IF i > Len(languages) THEN <<>>
    ELSE IF j > Len(languages) THEN PairsOfRow(row, languages, i + 1, i + 2)
    ELSE <<[Rank |-> row.Rank,
            English_Reference |-> row.English_Meaning,
            Word_A |-> row.Word,
            Word_B |-> row.Word,
            Lang_A |-> Strip(languages[i]),
            Lang_B |-> Strip(languages[j]),
            Match_Type |-> MT_Perfect,
            Similarity_Score |-> PerfectScore]>>
         \o PairsOfRow(row, languages, i, j + 1)

\* The master rows of one row of perfect_cognates_universal.csv.
ExpandPerfect(row) ==
    PairsOfRow(row, Split(row.Languages_Found, 44), 1, 2)

\* for _, row in perfect_df.iterrows(): ...
RECURSIVE perfect_processed(_)
perfect_processed(perfect_df) ==
    IF perfect_df = <<>> THEN <<>>
    ELSE ExpandPerfect(Head(perfect_df)) \o perfect_processed(Tail(perfect_df))

\* near_df.rename(...), Match_Type = 'Near', and the column selection.
near_transformed(near_df) ==
    [i \in 1 .. Len(near_df) |->
        [Rank |-> near_df[i].Rank,
         English_Reference |-> near_df[i].English_Meaning,
         Word_A |-> near_df[i].Word_A,
         Word_B |-> near_df[i].Word_B,
         Lang_A |-> near_df[i].Language_A,
         Lang_B |-> near_df[i].Language_B,
         Match_Type |-> MT_Near,
         Similarity_Score |-> near_df[i].Similarity_Score]]

\* A slip: "and" in place of "or" between the length and the score tests.
audit_logic_and(row) ==
    IF row.Match_Type = MT_Perfect THEN "OK"
    ELSE IF row.Match_Type = MT_Near
    THEN IF /\ \/ Len(Str(row.Word_A)) <= AuditShortLen
               \/ Len(Str(row.Word_B)) <= AuditShortLen
            /\ row.Similarity_Score < AuditMinScore
         THEN "Manual Review Needed"
         ELSE "OK"
    ELSE "OK"

audit_logic(row) ==
    IF row.Match_Type = MT_Perfect THEN "OK"
    ELSE IF row.Match_Type = MT_Near
    THEN IF \/ Len(Str(row.Word_A)) <= AuditShortLen
            \/ Len(Str(row.Word_B)) <= AuditShortLen
            \/ row.Similarity_Score < AuditMinScore
         THEN "Manual Review Needed"
         ELSE "OK"
    ELSE "OK"

\* A slip: the two codes taken as they stand, not sorted.
Pair_Key_unsorted(row) ==
    row.Lang_A \o <<45>> \o row.Lang_B \o <<45>> \o Str(row.English_Reference)

\* f"{sorted([Lang_A, Lang_B])[0]}-{sorted([Lang_A, Lang_B])[1]}-{English_Reference}"
Pair_Key(row) ==
    LET langs == SortedStrs(<<row.Lang_A, row.Lang_B>>)
    IN  langs[1] \o <<45>> \o langs[2] \o <<45>> \o Str(row.English_Reference)

\* The orders the default sort (kind='quicksort', not stable) may leave
\* rows of equal key in: the order they had, or the opposite one.
TieOrders == {"kept", "reversed"}

\* A slip: ascending=False left out.
MatchTypeAscending(r1, r2) == StrLess(r1.Match_Type, r2.Match_Type)

\* A slip: the final sort descending.
RankDescending(r1, r2) == r1.Rank > r2.Rank

\* ascending=False on Match_Type; ascending on Rank.
MatchTypeDescending(r1, r2) == StrLess(r2.Match_Type, r1.Match_Type)

RankAscending(r1, r2) == r1.Rank < r2.Rank

\* Whether r1 sorts strictly before r2 on the column by.
SortsBefore(by, r1, r2) ==
    IF by = "Match_Type" THEN MatchTypeDescending(r1, r2)
    ELSE RankAscending(r1, r2)

\* DataFrame.sort_values on the column by: a row's place is the number of
\* rows that sort before it, rows of equal key as ties says.
sort_values(df, by, ties) ==
    LET n == Len(df)
        before == [i \in 1 .. n |->
                     Cardinality({k \in 1 .. n : SortsBefore(by, df[k], df[i])})]
        among == [i \in 1 .. n |->
                    Cardinality({k \in 1 .. n :
                                   /\ before[k] = before[i]
                                   /\ IF ties = "kept" THEN k < i ELSE k > i})]
    IN  [p \in 1 .. n |->
            df[CHOOSE i \in 1 .. n : before[i] + among[i] + 1 = p]]

\* drop_duplicates(subset=['Pair_Key'], keep='first')
SeenBefore(df, i) == \E k \in 1 .. i - 1 : Pair_Key(df[k]) = Pair_Key(df[i])

RECURSIVE KeepFirst(_, _)
KeepFirst(df, i) ==
    IF i > Len(df) THEN <<>>
    ELSE IF SeenBefore(df, i) THEN KeepFirst(df, i + 1)
    ELSE <<df[i]>> \o KeepFirst(df, i + 1)

drop_duplicates(df) == KeepFirst(df, 1)

\* ------------------------------------------------------------------------
\* analyze_clusters.py

\* Column names: "Word", "Language_Count", "Rank", "English_Meaning",
\* "Languages_Found", "Count", and the language names "Spanish",
\* "Italian", "Romanian".
F_Word == <<87, 111, 114, 100>>

F_Language_Count == <<76, 97, 110, 103, 117, 97, 103, 101, 95, 67, 111, 117, 110, 116>>

F_Rank == <<82, 97, 110, 107>>

F_English_Meaning == <<69, 110, 103, 108, 105, 115, 104, 95, 77, 101, 97, 110, 105, 110, 103>>

F_Languages_Found == <<76, 97, 110, 103, 117, 97, 103, 101, 115, 95, 70, 111, 117, 110, 100>>

F_Count == <<67, 111, 117, 110, 116>>

Spanish == <<83, 112, 97, 110, 105, 115, 104>>

Italian == <<73, 116, 97, 108, 105, 97, 110>>

Romanian == <<82, 111, 109, 97, 110, 105, 97, 110>>

\* fieldnames.index(x): the first place of x, 0 when it has none.
IndexOf(fieldnames, x) ==
    IF \E i \in 1 .. Len(fieldnames) : fieldnames[i] = x
    THEN CHOOSE i \in 1 .. Len(fieldnames) :
            /\ fieldnames[i] = x
            /\ \A k \in 1 .. i - 1 : fieldnames[k] # x
    ELSE 0

\* All columns after Language_Count.
language_columns(fieldnames) ==
    SubSeq(fieldnames, IndexOf(fieldnames, F_Language_Count) + 1, Len(fieldnames))

\* [lang_name for lang_name in language_columns if row.get(lang_name, "").strip()]
RECURSIVE languages_present(_, _)
languages_present(row, columns) ==
    IF columns = <<>> THEN <<>>
    ELSE IF Strip(row.cells[Head(columns)]) # <<>>
    THEN <<Head(columns)>> \o languages_present(row, Tail(columns))
    ELSE languages_present(row, Tail(columns))

\* A slip: the cluster's list replaced, not extended.
ClusterAppend_overwrite(cl, key, word) ==
    [k \in DOMAIN cl \cup {key} |-> IF k = key THEN <<word>> ELSE cl[k]]

\* clusters[key].append(word), clusters a defaultdict(list)
ClusterAppend(cl, key, word) ==
    [k \in DOMAIN cl \cup {key} |->
        IF k = key
        THEN (IF key \in DOMAIN cl THEN cl[key] ELSE <<>>) \o <<word>>
        ELSE cl[k]]

\* counter[key] += 1, counter a Counter
Increment(counter, key) ==
    [k \in DOMAIN counter \cup {key} |->
        IF k = key
        THEN (IF key \in DOMAIN counter THEN counter[key] ELSE 0) + 1
        ELSE counter[k]]

\* A slip: only the neighbours in the sorted list, zip(l, l[1:]).
RECURSIVE CountPairs_neighbours(_, _, _, _)
CountPairs_neighbours(counter, names, i, j) ==
    IF i >= Len(names) THEN counter
    ELSE CountPairs_neighbours(Increment(counter, {names[i], names[i + 1]}),
                               names, i + 1, i + 2)

\* for a, b in itertools.combinations(names, 2):
\*     pair_counts[frozenset({a, b})] += 1, from the pair (i, j) on.
RECURSIVE CountPairs(_, _, _, _)
CountPairs(counter, names, i, j) ==
    IF i >= Len(names) THEN counter
    ELSE IF j > Len(names) THEN CountPairs(counter, names, i + 1, i + 2)
    ELSE CountPairs(Increment(counter, {names[i], names[j]}), names, i, j + 1)

\* A slip: a break after the first other language.
CountOthers_first_only(counter, names) ==
    LET others == SelectSeq(names, LAMBDA n : n # Romanian)
    IN  IF others = <<>> THEN counter ELSE Increment(counter, Head(others))

\* for other in languages_present: if other != "Romanian":
\*     romanian_connections[other] += 1
RECURSIVE CountOthers(_, _)
CountOthers(counter, names) ==
    IF names = <<>> THEN counter
    ELSE IF Head(names) = Romanian THEN CountOthers(counter, Tail(names))
    ELSE CountOthers(Increment(counter, Head(names)), Tail(names))

\* print_summary: sum(len(words) for words in clusters.values())
RECURSIVE SumLens(_, _)
SumLens(cl, keys) ==
    IF keys = {} THEN 0
    ELSE LET k == CHOOSE x \in keys : TRUE
         IN  Len(cl[k]) + SumLens(cl, keys \ {k})

total_words(cl) == SumLens(cl, DOMAIN cl)

\* ------------------------------------------------------------------------
\* download_frequency_list.py

\* "French", "Portuguese", "Catalan", "Galician"
French == <<70, 114, 101, 110, 99, 104>>

Portuguese == <<80, 111, 114, 116, 117, 103, 117, 101, 115, 101>>

Catalan == <<67, 97, 116, 97, 108, 97, 110>>

Galician == <<71, 97, 108, 105, 99, 105, 97, 110>>

\* LANGUAGES of download_frequency_list.py: (code, name)
DL_LANGUAGES ==
    <<<<ES, Spanish>>, <<FR, French>>, <<PT, Portuguese>>, <<IT, Italian>>,
      <<RO, Romanian>>, <<CA, Catalan>>, <<GL, Galician>>>>

\* [ln.strip() for ln in text.strip().splitlines() if ln.strip()], the
\* lines ending in "\n".
RECURSIVE StrippedLines(_)
StrippedLines(parts) ==
    IF parts = <<>> THEN <<>>
    ELSE IF Strip(Head(parts)) = <<>> THEN StrippedLines(Tail(parts))
    ELSE <<Strip(Head(parts))>> \o StrippedLines(Tail(parts))

Lines(text) == StrippedLines(Split(Strip(text), 10))

\* for rank, word in enumerate(lines, start=1): rows.append({...})
LanguageRows(code, name, lines) ==
    [i \in 1 .. Len(lines) |->
        [language |-> code, language_name |-> name,
         rank |-> Decimal(i), word |-> lines[i]]]

\* ------------------------------------------------------------------------
\* State.

VARIABLES
    english_by_rank,  \* the reference list, index 1 = rank 1
    by_lang_rank,     \* (language code, rank) -> word, as loaded
    perfect_csv,      \* perfect_cognates_universal.csv
    near_csv,         \* near_cognates_discovered.csv
    combined_df,      \* the merge's data frame
    merge_pc,         \* where recreate_master_cognate stands
    sort_ties,        \* how this installation's sort orders equal keys
    master_csv,       \* MASTER_COGNATE_V2.csv
    delta_args,       \* the two words detect_delta is called with
    pattern,          \* what detect_delta returned, of form "unset" before the call
    universal_csv,    \* universal_cognates.csv: its header and its rows
    cluster_pc,       \* where load_universal_cognates stands
    consumed,         \* the number of rows it has read
    clusters,         \* frozenset of language names -> list of words
    pair_counts,      \* frozenset of two language names -> count
    spanish_italian_words,
    romanian_connections,
    source,           \* language code -> what download_url gives for it
    dl_index,         \* how many of LANGUAGES the download has been through
    dl_rows,          \* rows of download_frequency_list.main
    raw_data_csv,     \* raw_data.csv
    load_pc,          \* whether main has called load_raw_data
    summary           \* the counts main has printed about the load

pipeline_vars == <<english_by_rank, by_lang_rank, perfect_csv, near_csv,
                   combined_df, merge_pc, sort_ties, master_csv>>

delta_vars == <<delta_args, pattern>>

cluster_vars == <<universal_csv, cluster_pc, consumed, clusters, pair_counts,
                  spanish_italian_words, romanian_connections>>

download_vars == <<source, dl_index, dl_rows, raw_data_csv>>

load_vars == <<load_pc, summary>>

\* The state of the scripts beside the detectors and the merge.
tool_vars == <<delta_vars, cluster_vars, download_vars, load_vars>>

vars == <<pipeline_vars, tool_vars>>

NoFile == [exists |-> FALSE, rows |-> <<>>]

File(rows) == [exists |-> TRUE, rows |-> rows]

\* The entries load_raw_data can have kept: stripped, non-empty words, at
\* most maxEntries of them, of ranks 1 .. maxRank.
Lexicons(langs, words, maxRank, maxEntries) ==
    UNION {[D -> words] :
             D \in {S \in SUBSET (langs \X (1 .. maxRank)) :
                      Cardinality(S) <= maxEntries}}

\* The lists download_english can return: stripped, non-empty lines.
RefLists(maxRank) == UNION {[1 .. n -> RefWords] : n \in 0 .. maxRank}

\* detect_delta not called.
NotCalled == [form |-> "unset", a |-> <<>>, b |-> <<>>]

DeltaIdle ==
    /\ delta_args = <<<<>>, <<>>>>
    /\ pattern = NotCalled

\* An empty dict, defaultdict or Counter.
EmptyDict == [k \in {} |-> 0]

\* load_universal_cognates at its first line.
ClustersEmpty ==
    /\ cluster_pc = "idle"
    /\ consumed = 0
    /\ clusters = EmptyDict
    /\ pair_counts = EmptyDict
    /\ spanish_italian_words = <<>>
    /\ romanian_connections = EmptyDict

ClusterIdle ==
    /\ universal_csv = [fieldnames |-> <<>>, rows |-> <<>>]
    /\ ClustersEmpty

\* What download_url gives: the text at the URL, or an exception.
Fetched(text) == [ok |-> TRUE, text |-> text]

Unavailable == [ok |-> FALSE, text |-> <<>>]

\* download_frequency_list.main at its first line.
DownloadStart ==
    /\ dl_index = 0
    /\ dl_rows = <<>>
    /\ raw_data_csv = NoFile

DownloadIdle ==
    /\ source = EmptyDict
    /\ DownloadStart

\* main before it loads raw_data.csv.
LoadIdle ==
    /\ load_pc = "idle"
    /\ summary = EmptyDict

ToolsIdle == DeltaIdle /\ ClusterIdle /\ DownloadIdle /\ LoadIdle

\* Before any script has run.
NothingRun ==
    /\ perfect_csv = NoFile
    /\ near_csv = NoFile
    /\ combined_df = <<>>
    /\ merge_pc = "idle"
    /\ sort_ties = "kept"
    /\ master_csv = NoFile

Init ==
    /\ english_by_rank \in RefLists(MaxRank)
    /\ by_lang_rank \in Lexicons(RawLangs, RawWords, MaxRank, MaxEntries)
    /\ NothingRun
    /\ ToolsIdle

InitPerfect ==
    /\ english_by_rank \in RefLists(MaxRank)
    /\ by_lang_rank \in Lexicons(PerfectLangs, PerfectWords, MaxRank, MaxEntries)
    /\ NothingRun
    /\ ToolsIdle

InitLong ==
    /\ english_by_rank \in RefLists(LongMaxRank)
    /\ by_lang_rank \in Lexicons(LongLangs, LongWords, LongMaxRank, LongMaxEntries)
    /\ NothingRun
    /\ ToolsIdle

InitNear ==
    /\ english_by_rank \in RefLists(MaxRank)
    /\ by_lang_rank \in Lexicons(NearLangs, NearWords, MaxRank, MaxEntries)
    /\ NothingRun
    /\ ToolsIdle

InitPipeline ==
    /\ english_by_rank \in UNION {[1 .. n -> PipeRefWords] : n \in 0 .. MaxRank}
    /\ by_lang_rank \in Lexicons(PipeLangs, PipeWords, MaxRank, MaxEntries)
    /\ NothingRun
    /\ ToolsIdle

InitDigits ==
    /\ english_by_rank \in UNION {[1 .. n -> DigitRefWords] : n \in 0 .. MaxRank}
    /\ by_lang_rank \in Lexicons(DigitLangs, DigitWords, MaxRank, MaxEntries)
    /\ NothingRun
    /\ ToolsIdle

\* Rows a perfect_cognates_universal.csv may hold: "en,es" at rank 1, the
\* same pair and concept again at rank 2, and a short word of three
\* languages.
P_en_es ==
    [Rank |-> 1, English_Meaning |-> W_casa, Word |-> W_casa,
     Languages_Found |-> EN \o <<44>> \o ES, Count |-> 2]

P_again ==
    [Rank |-> 2, English_Meaning |-> W_casa, Word |-> W_casa,
     Languages_Found |-> EN \o <<44>> \o ES, Count |-> 2]

P_three ==
    [Rank |-> 2, English_Meaning |-> W_casa, Word |-> W_no,
     Languages_Found |-> ES \o <<44>> \o FR \o <<44>> \o IT, Count |-> 3]

PerfectCandidates == {P_en_es, P_again, P_three}

\* Rows a near_cognates_discovered.csv may hold: the detector's own kind
\* (N_en_es, N_fr_es, the second with its codes in descending order) and
\* two it never writes, a two-letter word and a score below the threshold.
NearRow(rank, english_meaning, lang_a, word_a, lang_b, word_b, score) ==
    [Rank |-> rank,
     English_Meaning |-> english_meaning,
     Language_A |-> lang_a,
     Word_A |-> word_a,
     Language_B |-> lang_b,
     Word_B |-> word_b,
     Similarity_Score |-> score,
     Pattern_Detected |-> detect_delta(word_a, word_b)]

N_en_es == NearRow(2, W_casa, EN, W_casa, ES, W_caso, 750)

N_fr_es == NearRow(1, W_casa, FR, W_caso, ES, W_casa, 750)

N_short == NearRow(1, W_no, ES, W_no, IT, W_casa, 800)

N_low == NearRow(2, W_no, ES, W_casa, FR, W_vida, 250)

NearCandidates == {N_en_es, N_fr_es, N_short, N_low}

SeqsUpTo(S, n) == UNION {[1 .. k -> S] : k \in 0 .. n}

\* The merge run on two files written earlier, by the detectors or by hand.
InitMerge ==
    /\ english_by_rank = <<>>
    /\ by_lang_rank = <<>>
    /\ perfect_csv \in {File(rows) : rows \in SeqsUpTo(PerfectCandidates, MaxRows)}
    /\ near_csv \in {File(rows) : rows \in SeqsUpTo(NearCandidates, MaxRows)}
    /\ combined_df = <<>>
    /\ merge_pc = "idle"
    /\ sort_ties = "kept"
    /\ master_csv = NoFile
    /\ ToolsIdle

\* The words detect_delta may be called with: any text of up to
\* MaxWordLen characters "a" and "b".
DeltaWords == UNION {[1 .. n -> {97, 98}] : n \in 0 .. MaxWordLen}

InitDelta ==
    /\ english_by_rank = <<>>
    /\ by_lang_rank = <<>>
    /\ NothingRun
    /\ delta_args \in DeltaWords \X DeltaWords
    /\ pattern = NotCalled
    /\ ClusterIdle
    /\ DownloadIdle
    /\ LoadIdle

\* The header analyze_clusters expects, and the header that
\* find_perfect_cognates writes.
UniversalHeader == <<F_Word, F_Language_Count, Spanish, Italian, Romanian>>

PerfectHeader == <<F_Rank, F_English_Meaning, F_Word, F_Languages_Found, F_Count>>

\* The rows a universal_cognates.csv may hold: a word or blanks, and
\* under each language name the word or nothing.
ClusterWords == {W_casa, W_no, <<32>>}

ClusterRows ==
    {[Word |-> w, cells |-> c] :
        w \in ClusterWords, c \in [{Spanish, Italian, Romanian} -> {<<>>, W_casa}]}

InitClusters ==
    /\ english_by_rank = <<>>
    /\ by_lang_rank = <<>>
    /\ NothingRun
    /\ DeltaIdle
    /\ universal_csv \in
          {[fieldnames |-> UniversalHeader, rows |-> rows] :
              rows \in SeqsUpTo(ClusterRows, MaxClusterRows)}
          \cup {[fieldnames |-> PerfectHeader, rows |-> <<>>]}
    /\ ClustersEmpty
    /\ DownloadIdle
    /\ LoadIdle

\* The texts a language's URL may give: "casa\nno\n", and "es\n casa \n\n"
\* (the code on the first line, blanks around a word, an empty line).
SourceTexts ==
    {W_casa \o <<10>> \o W_no \o <<10>>,
     ES \o <<10, 32>> \o W_casa \o <<32, 10, 10>>}

DownloadCodes == {DL_LANGUAGES[i][1] : i \in 1 .. Len(DL_LANGUAGES)}

InitDownload ==
    /\ english_by_rank = <<>>
    /\ by_lang_rank = <<>>
    /\ NothingRun
    /\ DeltaIdle
    /\ ClusterIdle
    /\ source \in [DownloadCodes ->
                      {Fetched(text) : text \in SourceTexts} \cup {Unavailable}]
    /\ DownloadStart
    /\ LoadIdle

\* The rows a raw_data.csv may hold: what the download writes, blanks
\* around a field, a second row for a language and rank, a negative
\* rank, a rank that is no integer or is missing, a blank word, and no
\* language code.
RawRow(language, rank, word) ==
    [language |-> language, language_name |-> <<>>, rank |-> rank, word |-> word]

RawRows ==
    {RawRow(ES, <<49>>, W_casa),
     RawRow(<<32>> \o FR, <<32, 50, 32>>, <<32>> \o W_caso \o <<32>>),
     RawRow(ES, <<49>>, W_caso),
     RawRow(ES, <<45, 49>>, W_casa),
     RawRow(ES, <<120>>, W_casa),
     RawRow(ES, <<>>, W_casa),
     RawRow(FR, <<49>>, <<32, 32>>),
     RawRow(<<>>, <<49>>, W_casa)}

InitLoad ==
    /\ english_by_rank = <<>>
    /\ by_lang_rank = <<>>
    /\ NothingRun
    /\ DeltaIdle
    /\ ClusterIdle
    /\ source = EmptyDict
    /\ dl_index = 0
    /\ dl_rows = <<>>
    /\ raw_data_csv \in {File(rows) : rows \in SeqsUpTo(RawRows, MaxRawRows)}
    /\ LoadIdle

\* find_perfect_cognates.main
RunPerfect ==
    /\ ~perfect_csv.exists
    /\ perfect_csv' =
         File(find_universal_perfect_cognates(english_by_rank, by_lang_rank))
    /\ UNCHANGED <<english_by_rank, by_lang_rank, near_csv, combined_df,
                   merge_pc, sort_ties, master_csv>>
    /\ UNCHANGED tool_vars

\* find_near_cognates_fuzzy.main
RunNear ==
    /\ ~near_csv.exists
    /\ near_csv' =
         File(find_near_cognates(english_by_rank, by_lang_rank,
                                 LoadedLanguages(by_lang_rank),
                                 LoadedMaxRank(by_lang_rank)))
    /\ UNCHANGED <<english_by_rank, by_lang_rank, perfect_csv, combined_df,
                   merge_pc, sort_ties, master_csv>>
    /\ UNCHANGED tool_vars

\* recreate_master_cognate, to the concat: an empty perfect_processed
\* makes a frame without columns, and selecting the columns raises.
MergeNormalize ==
    /\ merge_pc = "idle"
    /\ perfect_csv.exists
    /\ near_csv.exists
    /\ \E ties \in TieOrders : sort_ties' = ties
    /\ IF perfect_processed(read_csv(perfect_csv.rows)) = <<>>
       THEN /\ merge_pc' = "raised"
            /\ combined_df' = <<>>
       ELSE /\ merge_pc' = "combined"
            /\ combined_df' = perfect_processed(read_csv(perfect_csv.rows))
                                \o near_transformed(read_csv(near_csv.rows))
    /\ UNCHANGED <<english_by_rank, by_lang_rank, perfect_csv, near_csv,
                   master_csv>>
    /\ UNCHANGED tool_vars

\* combined_df['Audit_Status'] = combined_df.apply(audit_logic, axis=1)
MergeAudit ==
    /\ merge_pc = "combined"
    /\ combined_df' =
         [i \in 1 .. Len(combined_df) |->
            [Rank |-> combined_df[i].Rank,
             English_Reference |-> combined_df[i].English_Reference,
             Word_A |-> combined_df[i].Word_A,
             Word_B |-> combined_df[i].Word_B,
             Lang_A |-> combined_df[i].Lang_A,
             Lang_B |-> combined_df[i].Lang_B,
             Match_Type |-> combined_df[i].Match_Type,
             Similarity_Score |-> combined_df[i].Similarity_Score,
             Audit_Status |-> audit_logic(combined_df[i])]]
    /\ merge_pc' = "audited"
    /\ UNCHANGED <<english_by_rank, by_lang_rank, perfect_csv, near_csv,
                   sort_ties, master_csv>>
    /\ UNCHANGED tool_vars

\* The Pair_Key column, the sort on Match_Type and drop_duplicates.
MergeDeduplicate ==
    /\ merge_pc = "audited"
    /\ combined_df' =
         drop_duplicates(sort_values(combined_df, "Match_Type", sort_ties))
    /\ merge_pc' = "deduplicated"
    /\ UNCHANGED <<english_by_rank, by_lang_rank, perfect_csv, near_csv,
                   sort_ties, master_csv>>
    /\ UNCHANGED tool_vars

\* The sort on Rank and to_csv.
MergeFinalize ==
    /\ merge_pc = "deduplicated"
    /\ combined_df' = sort_values(combined_df, "Rank", sort_ties)
    /\ master_csv' = File(combined_df')
    /\ merge_pc' = "written"
    /\ UNCHANGED <<english_by_rank, by_lang_rank, perfect_csv, near_csv,
                   sort_ties>>
    /\ UNCHANGED tool_vars

\* A call of detect_delta.
ApplyDetectDelta ==
    /\ pattern.form = "unset"
    /\ pattern' = detect_delta(delta_args[1], delta_args[2])
    /\ UNCHANGED <<delta_args, pipeline_vars, cluster_vars, download_vars, load_vars>>

\* load_universal_cognates, to the loop: the two columns it requires.
OpenUniversal ==
    /\ cluster_pc = "idle"
    /\ cluster_pc' =
         IF IndexOf(universal_csv.fieldnames, F_Word) = 0
            \/ IndexOf(universal_csv.fieldnames, F_Language_Count) = 0
         THEN "raised"
         ELSE "reading"
    /\ UNCHANGED <<universal_csv, consumed, clusters, pair_counts,
                   spanish_italian_words, romanian_connections>>
    /\ UNCHANGED <<pipeline_vars, delta_vars, download_vars, load_vars>>

\* One turn of the loop over the rows.
ConsumeRow ==
    /\ cluster_pc = "reading"
    /\ consumed < Len(universal_csv.rows)
    /\ consumed' = consumed + 1
    /\ LET row == universal_csv.rows[consumed + 1]
           word == Strip(row.Word)
           present == languages_present(row, language_columns(universal_csv.fieldnames))
           key == {present[i] : i \in 1 .. Len(present)}
       IN  IF word = <<>> \/ Len(present) < 2
           THEN UNCHANGED <<clusters, pair_counts, spanish_italian_words,
                            romanian_connections>>
           ELSE /\ clusters' = ClusterAppend(clusters, key, word)
                /\ pair_counts' = CountPairs(pair_counts, SortedStrs(present), 1, 2)
                /\ spanish_italian_words' =
                     IF Spanish \in key /\ Italian \in key
                     THEN Append(spanish_italian_words, word)
                     ELSE spanish_italian_words
                /\ romanian_connections' =
                     IF Romanian \in key
                     THEN CountOthers(romanian_connections, present)
                     ELSE romanian_connections
    /\ UNCHANGED <<universal_csv, cluster_pc>>
    /\ UNCHANGED <<pipeline_vars, delta_vars, download_vars, load_vars>>

\* The return after the last row.
ReturnClusters ==
    /\ cluster_pc = "reading"
    /\ consumed = Len(universal_csv.rows)
    /\ cluster_pc' = "returned"
    /\ UNCHANGED <<universal_csv, consumed, clusters, pair_counts,
                   spanish_italian_words, romanian_connections>>
    /\ UNCHANGED <<pipeline_vars, delta_vars, download_vars, load_vars>>

\* One turn of the loop over LANGUAGES: a failed fetch is printed and
\* the loop goes on.
DownloadLanguage ==
    /\ dl_index < Len(DL_LANGUAGES)
    /\ ~raw_data_csv.exists
    /\ dl_index' = dl_index + 1
    /\ LET code == DL_LANGUAGES[dl_index + 1][1]
           name == DL_LANGUAGES[dl_index + 1][2]
       IN  dl_rows' =
             IF ~source[code].ok THEN dl_rows
             ELSE dl_rows \o LanguageRows(code, name, Lines(source[code].text))
    /\ UNCHANGED <<source, raw_data_csv>>
    /\ UNCHANGED <<pipeline_vars, delta_vars, cluster_vars, load_vars>>

\* After the loop: writer.writeheader(); writer.writerows(rows)
WriteRawData ==
    /\ dl_index = Len(DL_LANGUAGES)
    /\ ~raw_data_csv.exists
    /\ raw_data_csv' = File(dl_rows)
    /\ UNCHANGED <<source, dl_index, dl_rows>>
    /\ UNCHANGED <<pipeline_vars, delta_vars, cluster_vars, load_vars>>

\* find_near_cognates_fuzzy.main, the load: load_raw_data and the line
\* printed after it.
LoadRawData ==
    /\ load_pc = "idle"
    /\ raw_data_csv.exists
    /\ by_lang_rank' = load_raw_data(raw_data_csv.rows)
    /\ summary' = [entries |-> Cardinality(DOMAIN by_lang_rank'),
                   languages |-> Cardinality(LoadedLanguages(by_lang_rank'))]
    /\ load_pc' = "loaded"
    /\ UNCHANGED <<english_by_rank, perfect_csv, near_csv, combined_df,
                   merge_pc, sort_ties, master_csv>>
    /\ UNCHANGED <<delta_vars, cluster_vars, download_vars>>

Next ==
    \/ RunPerfect
    \/ RunNear

Spec == Init /\ [][Next]_vars

\* The perfect-match detector alone.
NextPerfect == RunPerfect

SpecPerfect == InitPerfect /\ [][NextPerfect]_vars

\* The fuzzy-match detector alone.
NextNear == RunNear

SpecNear == InitNear /\ [][NextNear]_vars

\* The two detectors on long words.
SpecLong == InitLong /\ [][Next]_vars

\* detect_delta on any two words.
NextDelta == ApplyDetectDelta

SpecDelta == InitDelta /\ [][NextDelta]_vars

\* download_frequency_list on the sources it finds.
NextDownload ==
    \/ DownloadLanguage
    \/ WriteRawData

SpecDownload == InitDownload /\ [][NextDownload]_vars

\* The load of a raw_data.csv.
NextLoad == LoadRawData

SpecLoad == InitLoad /\ [][NextLoad]_vars

\* analyze_clusters on the file it finds.
NextClusters ==
    \/ OpenUniversal
    \/ ConsumeRow
    \/ ReturnClusters

SpecClusters == InitClusters /\ [][NextClusters]_vars

\* The two detectors, then the merge on what they wrote.
NextPipeline ==
    \/ RunPerfect
    \/ RunNear
    \/ MergeNormalize
    \/ MergeAudit
    \/ MergeDeduplicate
    \/ MergeFinalize

SpecPipeline == InitPipeline /\ [][NextPipeline]_vars

\* The same, on lists with tokens of digits.
SpecDigits == InitDigits /\ [][NextPipeline]_vars

\* The merge on the files it finds.
NextMerge ==
    \/ MergeNormalize
    \/ MergeAudit
    \/ MergeDeduplicate
    \/ MergeFinalize

SpecMerge == InitMerge /\ [][NextMerge]_vars

\* ------------------------------------------------------------------------
\* Properties.

\* The rows the merge starts from: the expanded Perfect records, then the
\* Near records.
MergeInput ==
    perfect_processed(read_csv(perfect_csv.rows))
        \o near_transformed(read_csv(near_csv.rows))

\* Two master rows of one pair key: the same unordered pair of languages
\* and the same English_Reference.
SamePairKey(r1, r2) ==
    /\ {r1.Lang_A, r1.Lang_B} = {r2.Lang_A, r2.Lang_B}
    /\ r1.English_Reference = r2.English_Reference

Range(f) == {f[i] : i \in DOMAIN f}

\* C1: in the Master Table no two rows have the same pair key (unordered
\* language pair, English_Reference).
C1_PairKeyUnique ==
    master_csv.exists =>
        \A i, j \in 1 .. Len(master_csv.rows) :
            i # j => ~SamePairKey(master_csv.rows[i], master_csv.rows[j])

\* The merge wrote a table of two rows or more after dropping a row whose
\* pair key another row had.
C1_Witness ==
    /\ master_csv.exists
    /\ Len(master_csv.rows) >= 2
    /\ \E i, j \in 1 .. Len(MergeInput) :
          i # j /\ SamePairKey(MergeInput[i], MergeInput[j])

\* C2: for every pair key that both a Perfect-derived row and a Near row
\* of the merge input have, the one Master Table row of that key is
\* Perfect, and no Near row of that key is left.
C2_Precedence ==
    master_csv.exists =>
        \A p \in Range(perfect_processed(perfect_csv.rows)) :
            \A n \in Range(near_transformed(near_csv.rows)) :
                SamePairKey(p, n) =>
                    /\ Cardinality({i \in 1 .. Len(master_csv.rows) :
                                      SamePairKey(master_csv.rows[i], p)}) = 1
                    /\ \A i \in 1 .. Len(master_csv.rows) :
                          SamePairKey(master_csv.rows[i], p) =>
                              master_csv.rows[i].Match_Type = MT_Perfect

\* The merge wrote its table from an input in which a Perfect-derived row
\* and a Near row share a pair key.
C2_Witness ==
    /\ master_csv.exists
    /\ \E p \in Range(perfect_processed(perfect_csv.rows)) :
          \E n \in Range(near_transformed(near_csv.rows)) : SamePairKey(p, n)

\* The codes a Languages_Found column lists.
ListedCodes(row) == Split(row.Languages_Found, 44)

\* The Perfect rows of the combined frame.
IsPerfect(row) == row.Match_Type = MT_Perfect

PerfectPart == SelectSeq(combined_df, IsPerfect)

RECURSIVE SumPairs(_)
SumPairs(records) ==
    IF records = <<>> THEN 0
    ELSE LET k == Len(ListedCodes(Head(records)))
         IN  (k * (k - 1)) \div 2 + SumPairs(Tail(records))

\* C7: before deduplication a Perfect record of k languages has become
\* k*(k-1)/2 master rows, one for each unordered pair of its languages,
\* each with the record's rank, reference and word, Word_A = Word_B,
\* Match_Type Perfect, Similarity_Score 1.0 and Lang_A # Lang_B.
C7_Normalization ==
    merge_pc = "combined" =>
        /\ Len(PerfectPart) = SumPairs(perfect_csv.rows)
        /\ \A row \in Range(PerfectPart) :
              /\ row.Word_A = row.Word_B
              /\ row.Similarity_Score = 1000
              /\ row.Lang_A # row.Lang_B
              /\ \E rec \in Range(perfect_csv.rows) :
                    /\ row.Rank = rec.Rank
                    /\ row.English_Reference = rec.English_Meaning
                    /\ row.Word_A = rec.Word
                    /\ {row.Lang_A, row.Lang_B} \subseteq Range(ListedCodes(rec))
        /\ \A rec \in Range(perfect_csv.rows) :
              \A a, b \in Range(ListedCodes(rec)) :
                  a # b =>
                      Cardinality({i \in 1 .. Len(PerfectPart) :
                                     /\ PerfectPart[i].Rank = rec.Rank
                                     /\ PerfectPart[i].English_Reference = rec.English_Meaning
                                     /\ PerfectPart[i].Word_A = rec.Word
                                     /\ {PerfectPart[i].Lang_A, PerfectPart[i].Lang_B} = {a, b}})
                      = Cardinality({n \in 1 .. Len(perfect_csv.rows) :
                                       perfect_csv.rows[n] = rec})

\* The frame was combined from a file holding a record of three languages
\* and a record of two.
C7_Witness ==
    /\ merge_pc = "combined"
    /\ \E rec \in Range(perfect_csv.rows) : Len(ListedCodes(rec)) = 3
    /\ \E rec \in Range(perfect_csv.rows) : Len(ListedCodes(rec)) = 2

WordAt(lang, rank) ==
    IF lang = EN
    THEN IF rank <= Len(english_by_rank) THEN english_by_rank[rank] ELSE <<>>
    ELSE Get(by_lang_rank, lang, rank)

LexiconLanguages == LoadedLanguages(by_lang_rank) \cup {EN}

LexiconRanks == 1 .. Max(Len(english_by_rank), LoadedMaxRank(by_lang_rank))

TargetLanguages == Range(LANGUAGES)

\* A record of the written file for this rank and word lists both codes.
Recorded(rank, word, l1, l2) ==
    \E row \in Range(perfect_csv.rows) :
        /\ row.Rank = rank
        /\ row.Word = word
        /\ {l1, l2} \subseteq Range(ListedCodes(row))

Contributors(rank, word) ==
    {l \in TargetLanguages : WordAt(l, rank) = word}

\* C4: every record lists two languages or more, none twice, and its
\* count is the number listed; a word that fewer than two languages
\* contribute at a rank has no record.
C4_RecordShape ==
    perfect_csv.exists =>
        \A row \in Range(perfect_csv.rows) :
            /\ Len(ListedCodes(row)) >= 2
            /\ Cardinality(Range(ListedCodes(row))) = Len(ListedCodes(row))
            /\ row.Count = Len(ListedCodes(row))
            /\ Cardinality(Contributors(row.Rank, row.Word)) >= 2

\* The detector wrote a record of three languages, and left out a word
\* that one language alone has at a rank of the reference list.
C4_Witness ==
    /\ perfect_csv.exists
    /\ \E row \in Range(perfect_csv.rows) : row.Count = 3
    /\ \E r \in 1 .. Len(english_by_rank) :
          \E l \in TargetLanguages :
              /\ WordAt(l, r) # <<>>
              /\ Contributors(r, WordAt(l, r)) = {l}
              /\ \A row \in Range(perfect_csv.rows) :
                    ~(row.Rank = r /\ row.Word = WordAt(l, r))

\* C5: every near record has a score above 0.7 and below 1.0 (in
\* thousandths, as written) and two different words.
C5_ScoreRange ==
    near_csv.exists =>
        \A row \in Range(near_csv.rows) :
            /\ row.Similarity_Score > 700
            /\ row.Similarity_Score < 1000
            /\ row.Word_A # row.Word_B

\* C6: no near record has a word shorter than 4 characters, the
\* reference word included; a word shorter than 4 characters that two
\* languages or more share at a rank still has its perfect record.
C6_MinimumLength ==
    /\ near_csv.exists =>
          \A row \in Range(near_csv.rows) :
              Len(row.Word_A) >= 4 /\ Len(row.Word_B) >= 4
    /\ perfect_csv.exists =>
          \A r \in 1 .. Len(english_by_rank) :
              \A l \in TargetLanguages :
                  (/\ WordAt(l, r) # <<>>
                   /\ Len(WordAt(l, r)) < 4
                   /\ Cardinality(Contributors(r, WordAt(l, r))) >= 2)
                      => \E row \in Range(perfect_csv.rows) :
                            /\ row.Rank = r
                            /\ row.Word = WordAt(l, r)
                            /\ Range(ListedCodes(row)) = Contributors(r, WordAt(l, r))

\* Both detectors have run on a lexicon with a short reference word that
\* another language shares and, at a rank, a short word beside two long
\* words that make a near record.
C6_Witness ==
    /\ near_csv.exists
    /\ perfect_csv.exists
    /\ \E row \in Range(perfect_csv.rows) : Len(row.Word) < 4
    /\ \E row \in Range(near_csv.rows) :
          \E l \in LexiconLanguages :
              WordAt(l, row.Rank) # <<>> /\ Len(WordAt(l, row.Rank)) < 4

\* The first language of LANGUAGES among those a record lists.
FirstListed(row) ==
    CHOOSE i \in 1 .. Len(LANGUAGES) :
        /\ LANGUAGES[i] \in Range(ListedCodes(row))
        /\ \A k \in 1 .. i - 1 : LANGUAGES[k] \notin Range(ListedCodes(row))

\* C10 as claimed: the records are in ascending rank order, and those of
\* one rank in lexicographic order of their word.
C10_RankThenWord ==
    perfect_csv.exists =>
        \A i, j \in 1 .. Len(perfect_csv.rows) :
            i < j =>
                \/ perfect_csv.rows[i].Rank < perfect_csv.rows[j].Rank
                \/ /\ perfect_csv.rows[i].Rank = perfect_csv.rows[j].Rank
                   /\ StrLess(perfect_csv.rows[i].Word, perfect_csv.rows[j].Word)

\* C10, amended: the records are in ascending rank order, and those of
\* one rank in the order in which their words are first met, the
\* reference word first and then the words of the languages in the order
\* of LANGUAGES.
C10_RankThenFirstMet ==
    perfect_csv.exists =>
        \A i, j \in 1 .. Len(perfect_csv.rows) :
            i < j =>
                \/ perfect_csv.rows[i].Rank < perfect_csv.rows[j].Rank
                \/ /\ perfect_csv.rows[i].Rank = perfect_csv.rows[j].Rank
                   /\ FirstListed(perfect_csv.rows[i]) < FirstListed(perfect_csv.rows[j])

\* The detector wrote two records of one rank, the later one with the
\* lexicographically smaller word.
C10_Witness ==
    /\ perfect_csv.exists
    /\ \E i, j \in 1 .. Len(perfect_csv.rows) :
          /\ i < j
          /\ perfect_csv.rows[i].Rank = perfect_csv.rows[j].Rank
          /\ StrLess(perfect_csv.rows[j].Word, perfect_csv.rows[i].Word)

\* (Language_A, Language_B) of r1 before that of r2.
PairLess(r1, r2) ==
    \/ StrLess(r1.Language_A, r2.Language_A)
    \/ /\ r1.Language_A = r2.Language_A
       /\ StrLess(r1.Language_B, r2.Language_B)

\* C11 as claimed: in every near record lang_a sorts before lang_b, and
\* the records of one rank are in ascending (lang_a, lang_b) order.
C11_SortedPairs ==
    near_csv.exists =>
        /\ \A row \in Range(near_csv.rows) :
              StrLess(row.Language_A, row.Language_B)
        /\ \A i, j \in 1 .. Len(near_csv.rows) :
              (i < j /\ near_csv.rows[i].Rank = near_csv.rows[j].Rank)
                  => PairLess(near_csv.rows[i], near_csv.rows[j])

\* C11, amended: the reference entry "en" is enumerated first and the
\* loaded codes after it in sorted order. In every near record lang_a is
\* "en" or sorts before lang_b, and the records of one rank are those of
\* the reference entry in ascending lang_b order, then the others in
\* ascending (lang_a, lang_b) order.
C11_ReferenceFirst ==
    near_csv.exists =>
        /\ \A row \in Range(near_csv.rows) :
              row.Language_A = EN \/ StrLess(row.Language_A, row.Language_B)
        /\ \A r \in {row.Rank : row \in Range(near_csv.rows)} :
              \E k \in 0 .. Len(near_csv.rows) :
                  \A i, j \in 1 .. Len(near_csv.rows) :
                      (/\ i <= j
                       /\ near_csv.rows[i].Rank = r
                       /\ near_csv.rows[j].Rank = r)
                          => /\ i <= k => near_csv.rows[i].Language_A = EN
                             /\ (i < j /\ j <= k)
                                   => StrLess(near_csv.rows[i].Language_B,
                                              near_csv.rows[j].Language_B)
                             /\ (i < j /\ k < i)
                                   => PairLess(near_csv.rows[i], near_csv.rows[j])

\* The detector wrote, at one rank, a record of the reference entry with
\* a code that sorts before "en", and after it a record of two loaded
\* codes.
C11_Witness ==
    /\ near_csv.exists
    /\ \E i, j \in 1 .. Len(near_csv.rows) :
          /\ i < j
          /\ near_csv.rows[i].Rank = near_csv.rows[j].Rank
          /\ near_csv.rows[i].Language_A = EN
          /\ StrLess(near_csv.rows[i].Language_B, EN)
          /\ near_csv.rows[j].Language_A # EN

\* The ranks of the reference list that some loaded row reaches.
RanksInBound ==
    {r \in 1 .. Len(english_by_rank) : \E k \in DOMAIN by_lang_rank : r <= k[2]}

\* Two entries of one rank that make a near record.
NearPair(w1, w2) ==
    /\ Len(w1) >= MinWordLen
    /\ Len(w2) >= MinWordLen
    /\ w1 # w2
    /\ ~Rejected(Ratio(w1, w2))

\* C12 as claimed: no near record has a rank above the least of the
\* loaded languages' maximum ranks (or above the reference list).
C12_MinOfMaxima ==
    near_csv.exists =>
        \A row \in Range(near_csv.rows) :
            /\ row.Rank >= 1
            /\ row.Rank <= Len(english_by_rank)
            /\ \A l \in LoadedLanguages(by_lang_rank) :
                  \E k \in DOMAIN by_lang_rank : k[1] = l /\ row.Rank <= k[2]

\* C12, amended: the ranks examined are 1 .. min(length of the reference
\* list, greatest rank of any loaded row). No near record has a rank
\* outside them, and at each of them every two entries that qualify have
\* their record.
C12_RankBound ==
    near_csv.exists =>
        /\ \A row \in Range(near_csv.rows) : row.Rank \in RanksInBound
        /\ \A r \in RanksInBound :
              \A l1, l2 \in LexiconLanguages :
                  (l1 # l2 /\ NearPair(WordAt(l1, r), WordAt(l2, r)))
                      => \E row \in Range(near_csv.rows) :
                            /\ row.Rank = r
                            /\ {<<row.Language_A, row.Word_A>>,
                                <<row.Language_B, row.Word_B>>}
                                 = {<<l1, WordAt(l1, r)>>, <<l2, WordAt(l2, r)>>}

\* A near record at a rank that one of the loaded languages does not
\* reach.
C12_Witness ==
    /\ near_csv.exists
    /\ \E row \in Range(near_csv.rows) :
          \E l \in LoadedLanguages(by_lang_rank) :
              \A k \in DOMAIN by_lang_rank : k[1] = l => k[2] < row.Rank

\* C14: the rows of the Master Table are in non-decreasing Rank order.
C14_RankOrder ==
    merge_pc = "written" =>
        \A i, j \in 1 .. Len(master_csv.rows) :
            i < j => master_csv.rows[i].Rank <= master_csv.rows[j].Rank

\* The Master Table is written, none of the rows the merge started from
\* was dropped, and two of them stood in descending rank order.
C14_Witness ==
    /\ merge_pc = "written"
    /\ Len(master_csv.rows) = Len(MergeInput)
    /\ \E i, j \in 1 .. Len(MergeInput) :
          i < j /\ MergeInput[i].Rank > MergeInput[j].Rank

\* C20: every near record has two different language codes, and there is
\* at most one record for a rank and an unordered pair of codes.
C20_DistinctLanguages ==
    near_csv.exists =>
        /\ \A row \in Range(near_csv.rows) : row.Language_A # row.Language_B
        /\ \A i, j \in 1 .. Len(near_csv.rows) :
              (i < j /\ near_csv.rows[i].Rank = near_csv.rows[j].Rank)
                  => {near_csv.rows[i].Language_A, near_csv.rows[i].Language_B}
                       # {near_csv.rows[j].Language_A, near_csv.rows[j].Language_B}

\* The length of the longest common prefix and of the longest common
\* suffix of a and b.
CommonPrefix(a, b) ==
    CHOOSE n \in 0 .. Min(Len(a), Len(b)) :
        /\ \A i \in 1 .. n : a[i] = b[i]
        /\ n < Min(Len(a), Len(b)) => a[n + 1] # b[n + 1]

CommonSuffix(a, b) ==
    CHOOSE n \in 0 .. Min(Len(a), Len(b)) :
        /\ \A i \in 0 .. n - 1 : a[Len(a) - i] = b[Len(b) - i]
        /\ n < Min(Len(a), Len(b)) => a[Len(a) - n] # b[Len(b) - n]

\* C13: for two distinct non-empty words, with p the length of the
\* longest common prefix and s that of the longest common suffix,
\* shortened to min(|a|, |b|) - p when the two would overlap, the middles
\* detect_delta reports rebuild each word between its first p and its
\* last s characters, which are the same in a and b.
C13_Reconstruction ==
    LET a == delta_args[1]
        b == delta_args[2]
        p == CommonPrefix(a, b)
        full == CommonSuffix(a, b)
        s == IF p + full > Min(Len(a), Len(b))
             THEN Min(Len(a), Len(b)) - p
             ELSE full
    IN  (pattern.form # "unset" /\ a # <<>> /\ b # <<>> /\ a # b) =>
            /\ p + s <= Min(Len(a), Len(b))
            /\ a = SubSeq(a, 1, p) \o pattern.a \o SubSeq(a, Len(a) - s + 1, Len(a))
            /\ b = SubSeq(b, 1, p) \o pattern.b \o SubSeq(b, Len(b) - s + 1, Len(b))
            /\ SubSeq(a, 1, p) = SubSeq(b, 1, p)
            /\ SubSeq(a, Len(a) - s + 1, Len(a)) = SubSeq(b, Len(b) - s + 1, Len(b))

\* detect_delta was called with two words whose longest common prefix
\* and suffix overlap, and reported an empty middle for one of them.
C13_Witness ==
    /\ pattern.form # "unset"
    /\ delta_args[1] # delta_args[2]
    /\ CommonPrefix(delta_args[1], delta_args[2])
          + CommonSuffix(delta_args[1], delta_args[2])
          > Min(Len(delta_args[1]), Len(delta_args[2]))
    /\ pattern.a = <<>>
    /\ pattern.b # <<>>

\* The rows load_universal_cognates has read so far, and those of them
\* that are perfect-cognate records: a word, and two languages or more.
ConsumedRows == SubSeq(universal_csv.rows, 1, consumed)

LanguageSet(row) ==
    {l \in {Spanish, Italian, Romanian} : Strip(row.cells[l]) # <<>>}

IsRecord(row) == Strip(row.Word) # <<>> /\ Cardinality(LanguageSet(row)) >= 2

ConsumedRecords == SelectSeq(ConsumedRows, IsRecord)

\* C15: the sizes of the clusters add up to the number of records
\* consumed, and the cluster of each set of languages holds the words of
\* the records with exactly that set, in the order they were read.
C15_ClusterTotal ==
    cluster_pc \in {"reading", "returned"} =>
        /\ total_words(clusters) = Len(ConsumedRecords)
        /\ \A key \in SUBSET {Spanish, Italian, Romanian} :
              LET ofKey(row) == LanguageSet(row) = key
                  words == [i \in 1 .. Len(SelectSeq(ConsumedRecords, ofKey)) |->
                              Strip(SelectSeq(ConsumedRecords, ofKey)[i].Word)]
              IN  IF key \in DOMAIN clusters
                  THEN clusters[key] = words
                  ELSE words = <<>>

\* The loader returned after two records of one language set.
C15_Witness ==
    /\ cluster_pc = "returned"
    /\ Len(ConsumedRecords) = 2
    /\ LanguageSet(ConsumedRecords[1]) = LanguageSet(ConsumedRecords[2])

\* C16: the count of each unordered pair of languages is the number of
\* records consumed whose language set contains both.
C16_PairCounts ==
    cluster_pc \in {"reading", "returned"} =>
        \A a, b \in {Spanish, Italian, Romanian} :
            a # b =>
                LET both(row) == a \in LanguageSet(row) /\ b \in LanguageSet(row)
                    n == Len(SelectSeq(ConsumedRecords, both))
                IN  IF {a, b} \in DOMAIN pair_counts
                    THEN pair_counts[{a, b}] = n
                    ELSE n = 0

\* The loader returned after a record of three languages.
C16_Witness ==
    /\ cluster_pc = "returned"
    /\ \E i \in 1 .. Len(ConsumedRecords) :
          Cardinality(LanguageSet(ConsumedRecords[i])) = 3
    /\ pair_counts[{Spanish, Romanian}] >= 1

\* C17: when the fetch of a language's list fails, no raw_data.csv is
\* written.
C17_SourceFatal ==
    (\E code \in DOMAIN source : ~source[code].ok)
        => ~raw_data_csv.exists

\* A row of raw_data.csv that can make an entry: a language code, an
\* integer rank and a word.
WellFormed(row) ==
    /\ Strip(row.language) # <<>>
    /\ ParseInt(row.rank).ok
    /\ Strip(row.word) # <<>>

RowKey(row) == <<Strip(row.language), ParseInt(row.rank).value>>

\* What load_raw_data keeps: the entries are those of the well-formed
\* rows, each with the word of the last row of its language and rank.
LoadedAsSaid ==
    load_pc = "loaded" =>
        /\ DOMAIN by_lang_rank =
              {RowKey(row) : row \in {r \in Range(raw_data_csv.rows) : WellFormed(r)}}
        /\ \A i \in 1 .. Len(raw_data_csv.rows) :
              LET row == raw_data_csv.rows[i]
              IN  (/\ WellFormed(row)
                   /\ \A k \in i + 1 .. Len(raw_data_csv.rows) :
                         ~(/\ WellFormed(raw_data_csv.rows[k])
                           /\ RowKey(raw_data_csv.rows[k]) = RowKey(row)))
                      => by_lang_rank[RowKey(row)] = Strip(row.word)

\* C18: a row whose rank is no integer or whose word is empty makes no
\* entry, every well-formed row is loaded, and the number of rows
\* skipped is among the counts of the run summary.
C18_SkippedAndCounted ==
    /\ LoadedAsSaid
    /\ load_pc = "loaded" =>
          /\ "skipped" \in DOMAIN summary
          /\ summary["skipped"] =
                Cardinality({i \in 1 .. Len(raw_data_csv.rows) :
                               ~WellFormed(raw_data_csv.rows[i])})

\* The reference words differ from rank to rank, and raw_data.csv has no
\* row under "en".
UniqueConcepts ==
    /\ \A i, j \in 1 .. Len(english_by_rank) :
          i # j => english_by_rank[i] # english_by_rank[j]
    /\ EN \notin LoadedLanguages(by_lang_rank)

\* The detectors wrote at most one row, Perfect-derived or Near, for a
\* rank and an unordered pair of languages.
OneRowPerRankAndPair ==
    (perfect_csv.exists /\ near_csv.exists) =>
        \A i, j \in 1 .. Len(MergeInput) :
            (i < j /\ MergeInput[i].Rank = MergeInput[j].Rank)
                => {MergeInput[i].Lang_A, MergeInput[i].Lang_B}
                     # {MergeInput[j].Lang_A, MergeInput[j].Lang_B}

\* C19: with reference words that differ from rank to rank and no raw
\* row under "en", the detectors write at most one row for a rank and an
\* unordered pair of languages, and the deduplication of the merge drops
\* no row.
C19_DedupNoOp ==
    UniqueConcepts =>
        /\ OneRowPerRankAndPair
        /\ merge_pc \in {"deduplicated", "written"}
              => Len(combined_df) = Len(MergeInput)

\* ------------------------------------------------------------------------
\* The audit, end to end.

\* The files the merge read are the ones the two detectors write from
\* the lexicon.
DetectorOutputs ==
    /\ perfect_csv =
         File(find_universal_perfect_cognates(english_by_rank, by_lang_rank))
    /\ near_csv =
         File(find_near_cognates(english_by_rank, by_lang_rank,
                                 LoadedLanguages(by_lang_rank),
                                 LoadedMaxRank(by_lang_rank)))

\* What find_near_cognates lets through: two words of four characters or
\* more and a score, as written, of 0.700 or more.
NearRowsPassAudit ==
    near_csv.exists =>
        \A rec \in Range(near_csv.rows) :
            /\ Len(rec.Word_A) > AuditShortLen
            /\ Len(rec.Word_B) > AuditShortLen
            /\ rec.Similarity_Score >= AuditMinScore

\* C21: when the merge ran on the outputs of the two detectors, every
\* row of the Master Table has audit status OK.
C21_AllRowsOK ==
    (merge_pc = "written" /\ DetectorOutputs) =>
        \A row \in Range(master_csv.rows) : row.Audit_Status = "OK"

\* C22: for two distinct non-empty words detect_delta returns the form
\* "delta: '<mid_a>' vs '<mid_b>'" with at least one middle non-empty,
\* never the "delta_whole" form and never the empty string.
C22_NeverWhole ==
    (/\ pattern.form # "unset"
     /\ delta_args[1] # <<>>
     /\ delta_args[2] # <<>>
     /\ delta_args[1] # delta_args[2]) =>
        /\ pattern.form = "delta"
        /\ pattern.a # <<>> \/ pattern.b # <<>>

\* detect_delta was called with two distinct words, the second all of it
\* a prefix and a suffix of the first, so that the two overlap: it
\* reported the form "delta" with the middle of the shorter word empty.
C22_Witness ==
    /\ pattern.form = "delta"
    /\ Len(delta_args[2]) > 0
    /\ Len(delta_args[1]) > Len(delta_args[2])
    /\ CommonPrefix(delta_args[1], delta_args[2]) = Len(delta_args[2])
    /\ CommonSuffix(delta_args[1], delta_args[2]) = Len(delta_args[2])
    /\ pattern.a # <<>>
    /\ pattern.b = <<>>

\* ------------------------------------------------------------------------
\* The anchor list and the hub counter.

\* counter[key] of a Counter: 0 for a key it does not hold.
CounterGet(counter, key) ==
    IF key \in DOMAIN counter THEN counter[key] ELSE 0

\* C23: after load_universal_cognates, on a file with one column per
\* language, the Spanish-Italian list has pair_counts[{Spanish, Italian}]
\* words, and for every language L other than Romanian
\* romanian_connections[L] equals pair_counts[{Romanian, L}].
C23_AnchorAndHub ==
    cluster_pc \in {"reading", "returned"} =>
        /\ Len(spanish_italian_words)
              = CounterGet(pair_counts, {Spanish, Italian})
        /\ \A L \in {Spanish, Italian} :
              CounterGet(romanian_connections, L)
                = CounterGet(pair_counts, {Romanian, L})
        /\ DOMAIN romanian_connections \subseteq {Spanish, Italian}

\* The loader returned after a record of the three languages and a
\* record of Spanish and Italian alone: two words in the bilateral list,
\* one connection of Romanian with each of the two.
C23_Witness ==
    /\ cluster_pc = "returned"
    /\ Len(spanish_italian_words) = 2
    /\ CounterGet(romanian_connections, Spanish) = 1
    /\ CounterGet(romanian_connections, Italian) = 1
    /\ CounterGet(pair_counts, {Spanish, Italian}) = 2

====
